---- MODULE Spec2Model ----
(***************************************************************************)
(* Model of the projection engine of retirement_streamlit.py: the class    *)
(* RetirementPlan, its three subclasses and the Monte Carlo loop.          *)
(*                                                                         *)
(* Python's float (and numpy's float64) is IEEE-754 binary floating point  *)
(* with round-to-nearest, ties-to-even.  The model keeps that arithmetic   *)
(* and shortens the significand from 53 bits to Precision bits, so that    *)
(* every operation of the source rounds where the source's rounds.  A      *)
(* number is [k, m, e]: k = "fin" is the value m * 2^e with m odd (or      *)
(* m = 0, e = 0), k = "nan" is NaN, k = "inf" is m * infinity (m = 1, -1). *)
(* The exponent is unbounded: nothing here overflows or underflows.        *)
(***************************************************************************)
EXTENDS Integers, Sequences, FiniteSets

\* ------------------------------------------------------------ bounds
Precision == 5
MaxYears == 2
MaxAssets == 2

\* ------------------------------------------------- float arithmetic
RECURSIVE Pow2(_)
Pow2(n) == IF n <= 0 THEN 1 ELSE 2 * Pow2(n - 1)

RECURSIVE IPow(_, _)
IPow(b, n) == IF n <= 0 THEN 1 ELSE b * IPow(b, n - 1)

Abs(n) == IF n < 0 THEN -n ELSE n

Sgn(n) == IF n < 0 THEN -1 ELSE IF n > 0 THEN 1 ELSE 0

RECURSIVE BitLen(_)
BitLen(n) == IF n <= 0 THEN 0 ELSE 1 + BitLen(n \div 2)

NaN == [k |-> "nan", m |-> 0, e |-> 0]

Inf(s) == [k |-> "inf", m |-> s, e |-> 0]

RECURSIVE Canon(_, _)
Canon(m, e) ==
    IF m = 0 THEN [k |-> "fin", m |-> 0, e |-> 0]
    ELSE IF m % 2 = 0 THEN Canon(m \div 2, e + 1)
    ELSE [k |-> "fin", m |-> m, e |-> e]

\* The float nearest to n * 2^e, ties to the even significand.
Round(n, e) ==
    LET a == Abs(n)
        s == BitLen(a) - Precision
    IN  IF s <= 0 THEN Canon(n, e)
        ELSE LET q == a \div Pow2(s)
                 r == a % Pow2(s)
                 half == Pow2(s - 1)
                 up == r > half \/ (r = half /\ q % 2 = 1)
                 q2 == IF up THEN q + 1 ELSE q
             IN  Canon(Sgn(n) * q2, e + s)

\* The float nearest to (n / d) * 2^e, d > 0: the quotient to Precision + 1
\* bits or more, and a sticky bit for the remainder.
RoundRat(n, d, e) ==
    LET a == Abs(n)
        s == Precision + 2 + BitLen(d) - BitLen(a)
        sh == IF s > 0 THEN s ELSE 0
        q == (a * Pow2(sh)) \div d
        r == (a * Pow2(sh)) % d
        sticky == IF r = 0 THEN 0 ELSE 1
    IN  IF n = 0 THEN Canon(0, 0)
        ELSE Round(Sgn(n) * (2 * q + sticky), e - sh - 1)

F(n) == Round(n, 0)

Zero == F(0)

One == F(1)

FNeg(x) == IF x.k = "nan" THEN NaN ELSE [x EXCEPT !.m = -x.m]

FAdd(x, y) ==
    IF x.k = "nan" \/ y.k = "nan" THEN NaN
    ELSE IF x.k = "inf" /\ y.k = "inf" THEN (IF x.m = y.m THEN x ELSE NaN)
    ELSE IF x.k = "inf" THEN x
    ELSE IF y.k = "inf" THEN y
    ELSE LET lo == IF x.e < y.e THEN x.e ELSE y.e
         IN  Round(x.m * Pow2(x.e - lo) + y.m * Pow2(y.e - lo), lo)

FSub(x, y) == FAdd(x, FNeg(y))

FMul(x, y) ==
    IF x.k = "nan" \/ y.k = "nan" THEN NaN
    ELSE IF x.k = "inf" \/ y.k = "inf"
         THEN (IF x.m = 0 \/ y.m = 0 THEN NaN ELSE Inf(Sgn(x.m) * Sgn(y.m)))
    ELSE Round(x.m * y.m, x.e + y.e)

\* numpy's float64 division: 0/0 is NaN and x/0 is an infinity, each with a
\* RuntimeWarning and no exception.
FDiv(x, y) ==
    IF x.k = "nan" \/ y.k = "nan" THEN NaN
    ELSE IF x.k = "inf" THEN (IF y.k = "inf" THEN NaN
                              ELSE Inf(x.m * (IF y.m < 0 THEN -1 ELSE 1)))
    ELSE IF y.k = "inf" THEN Zero
    ELSE IF y.m = 0 THEN (IF x.m = 0 THEN NaN ELSE Inf(Sgn(x.m)))
    ELSE LET n == x.m * Sgn(y.m)
             d == Abs(y.m)
         IN  RoundRat(n, d, x.e - y.e)

\* x ** n for an int n >= 0: C's pow, the exact power rounded once;
\* pow(x, 0) is 1 for every x, NaN included.
FPow(x, n) ==
    IF n = 0 THEN One
    ELSE IF x.k = "nan" THEN NaN
    ELSE IF x.k = "inf" THEN Inf(IPow(x.m, n))
    ELSE Round(IPow(x.m, n), x.e * n)

\* ------------------------------------------------------- input sets
\* n/d for the dyadic inputs below (exact) and any other ratio (rounded).
Q(n, d) == FDiv(F(n), F(d))

Classes == {"RetirementPlan", "RothRetirementPlan", "QualifiedAnnuityPlan",
            "NonQualifiedAnnuityPlan"}

Savings == {F(3), F(10)}

Contributions == {F(5)}

InflationRates == {Zero, Q(1, 4)}

CurrentAges == {30}

\* The <<name, proportion, expected_return, std_dev>> an add_assets call is
\* given.
AssetArgs ==
    { <<"stock", One, Q(1, 4), Zero>>,
      <<"fund", Q(1, 2), Q(1, 2), Q(1, 4)>>,
      <<"cash", Q(1, 2), Q(-1, 4), Zero>> }

NumSimulations == {0, 1, 2}

TaxRates == {Zero, Q(1, 4), Q(1, 2), One}

Rates == {Zero, Q(1, 4)}

\* Draws of the standard normal deviate behind np.random.normal.
Deviates == {F(-1), One}

\* ----------------------------------------------- RetirementPlan (pure)
\* The dict add_assets builds.
Asset(name, proportion, expected_return, std_dev) ==
    [name |-> name, proportion |-> proportion,
     expected_return |-> expected_return, std_dev |-> std_dev]

\* np.dot of two equal-length lists: the products summed in order; 0.0 for
\* empty lists.
RECURSIVE Dot(_, _)
Dot(a, b) ==
    IF Len(a) = 0 THEN Zero
    ELSE IF Len(a) = 1 THEN FMul(a[1], b[1])
    ELSE FAdd(Dot(SubSeq(a, 1, Len(a) - 1), SubSeq(b, 1, Len(b) - 1)),
              FMul(a[Len(a)], b[Len(b)]))

adjusted_return(p, rate) ==
    FSub(FDiv(FAdd(One, rate), FAdd(One, p.inflation_rate)), One)

\* Mutant: the dot product divided by the total proportion (a weighted
\* average), which is 0/0 for an empty portfolio.
weighted_return_normalised(p) ==
    FDiv(Dot([i \in 1..Len(p.assets) |-> p.assets[i].proportion],
             [i \in 1..Len(p.assets) |-> p.assets[i].expected_return]),
         Dot([i \in 1..Len(p.assets) |-> p.assets[i].proportion],
             [i \in 1..Len(p.assets) |-> One]))

weighted_return(p) ==
    Dot([i \in 1..Len(p.assets) |-> p.assets[i].proportion],
        [i \in 1..Len(p.assets) |-> p.assets[i].expected_return])

calculate_weighted_return(p) == adjusted_return(p, weighted_return(p))

future_value_current_savings(p) ==
    FMul(p.current_savings,
         FPow(FAdd(One, calculate_weighted_return(p)), p.years_to_invest))

future_value_annuity(p) ==
    LET wr == calculate_weighted_return(p)
    IN  FMul(p.annual_savings,
             FDiv(FSub(FPow(FAdd(One, wr), p.years_to_invest), One), wr))

calculate_principal(p) == FMul(p.annual_savings, F(p.years_to_invest))

\* calculate_total_retirement_savings of each class: the returned 3-tuple.
BaseTotal(p, tax_rate) ==
    LET future_value_current == future_value_current_savings(p)
        fva == future_value_annuity(p)
        total == FMul(FAdd(future_value_current, fva), FSub(One, tax_rate))
    IN  <<future_value_current, fva, total>>

\* Mutant: the lump sum reduced by the tax rate, not grown by it.
QualifiedTotal_lump_taxed(p, tax_rate) ==
    LET future_value_current ==
            FMul(future_value_current_savings(p), FSub(One, tax_rate))
        fva == future_value_annuity(p)
        interest == FSub(fva, calculate_principal(p))
        after_tax_interest == FMul(interest, FSub(One, tax_rate))
        total == FAdd(FAdd(future_value_current, calculate_principal(p)),
                      after_tax_interest)
    IN  <<future_value_current, fva, total>>

QualifiedTotal(p, tax_rate) ==
    LET future_value_current ==
            FMul(future_value_current_savings(p), FAdd(One, tax_rate))
        fva == future_value_annuity(p)
        interest == FSub(fva, calculate_principal(p))
        after_tax_interest == FMul(interest, FSub(One, tax_rate))
        total == FAdd(FAdd(future_value_current, calculate_principal(p)),
                      after_tax_interest)
    IN  <<future_value_current, fva, total>>

\* Mutant: the lump sum left as it is before the sum is taxed.
NonQualifiedTotal_taxed_once(p, tax_rate) ==
    LET future_value_current == future_value_current_savings(p)
        fva == future_value_annuity(p)
        total == FMul(FAdd(future_value_current, fva), FSub(One, tax_rate))
    IN  <<future_value_current, fva, total>>

NonQualifiedTotal(p, tax_rate) ==
    LET future_value_current ==
            FMul(future_value_current_savings(p), FAdd(One, tax_rate))
        fva == future_value_annuity(p)
        total == FMul(FAdd(future_value_current, fva), FSub(One, tax_rate))
    IN  <<future_value_current, fva, total>>

\* Mutant: the annuity taxed along with the lump sum.
RothTotal_all_taxed(p, tax_rate) ==
    LET future_value_current ==
            FMul(future_value_current_savings(p), FSub(One, tax_rate))
        fva == future_value_annuity(p)
        total == FMul(FAdd(future_value_current_savings(p), fva),
                      FSub(One, tax_rate))
    IN  <<future_value_current, fva, total>>

RothTotal(p, tax_rate) ==
    LET future_value_current ==
            FMul(future_value_current_savings(p), FSub(One, tax_rate))
        fva == future_value_annuity(p)
        total == FAdd(future_value_current, fva)
    IN  <<future_value_current, fva, total>>

\* Method resolution: each subclass overrides this one method only.
calculate_total_retirement_savings(p, tax_rate) ==
    CASE p.cls = "QualifiedAnnuityPlan" -> QualifiedTotal(p, tax_rate)
      [] p.cls = "NonQualifiedAnnuityPlan" -> NonQualifiedTotal(p, tax_rate)
      [] p.cls = "RothRetirementPlan" -> RothTotal(p, tax_rate)
      [] OTHER -> BaseTotal(p, tax_rate)

\* Mutant: the two arguments of np.random.normal swapped.
Normal_swapped(loc, scale, z) == FAdd(scale, FMul(loc, z))

\* np.random.normal(loc, scale): loc + scale * (a standard normal deviate).
Normal(loc, scale, z) == FAdd(loc, FMul(scale, z))

\* Mutant: a Qualified plan's trial splits the annuity into principal and
\* interest, as its calculate_total_retirement_savings does.
TrialTotal_by_policy(p, random_returns) ==
    LET wr == Dot([i \in 1..Len(p.assets) |-> p.assets[i].proportion],
                  random_returns)
        adj == adjusted_return(p, wr)
        future_value_current ==
            FMul(p.current_savings, FPow(FAdd(One, adj), p.years_to_invest))
        fva == FMul(p.annual_savings,
                    FDiv(FSub(FPow(FAdd(One, adj), p.years_to_invest), One),
                         adj))
    IN  IF p.cls = "QualifiedAnnuityPlan"
        THEN FAdd(FAdd(future_value_current, calculate_principal(p)),
                  FSub(fva, calculate_principal(p)))
        ELSE FAdd(future_value_current, fva)

\* One pass of the simulation loop, given the trial's sampled returns.
TrialTotal(p, random_returns) ==
    LET wr == Dot([i \in 1..Len(p.assets) |-> p.assets[i].proportion],
                  random_returns)
        adj == adjusted_return(p, wr)
        future_value_current ==
            FMul(p.current_savings, FPow(FAdd(One, adj), p.years_to_invest))
        fva == FMul(p.annual_savings,
                    FDiv(FSub(FPow(FAdd(One, adj), p.years_to_invest), One),
                         adj))
    IN  FAdd(future_value_current, fva)

\* --------------------------------------------------------------- state
\* self: the plan object.  call, ret: the latest method call (its name and
\* arguments; for a monte_carlo_simulation that has returned, also the
\* returns it sampled) and what it returned, as a sequence of floats (empty while
\* monte_carlo_simulation runs).  log: the arguments of
\* every add_assets call so far, in call order.  mc: the frame of a running
\* monte_carlo_simulation: its argument and the locals of its loop.
VARIABLES self, call, ret, log, mc

vars == <<self, call, ret, log, mc>>

Idle ==
    [on |-> FALSE, num_simulations |-> 0, samples |-> <<>>,
     total_savings_retirement |-> <<>>]

\* __init__
NewPlan(cls, current_savings, annual_savings, inflation_rate, current_age, retirement_age) ==
    [cls |-> cls, current_savings |-> current_savings,
     annual_savings |-> annual_savings, inflation_rate |-> inflation_rate,
     current_age |-> current_age, retirement_age |-> retirement_age,
     years_to_invest |-> retirement_age - current_age, assets |-> <<>>]

Init ==
    /\ \E cls \in Classes, cs \in Savings, an \in Contributions,
          ir \in InflationRates, ca \in CurrentAges, y \in 0..MaxYears :
            self = NewPlan(cls, cs, an, ir, ca, ca + y)
    /\ call = [name |-> "__init__", args |-> <<>>]
    /\ ret = <<>>
    /\ log = <<>>
    /\ mc = Idle

\* x < y for finite x, y.
FLess(x, y) == FSub(x, y).m < 0

RECURSIVE TotalProportion(_)
TotalProportion(assets) ==
    IF Len(assets) = 0 THEN Zero
    ELSE FAdd(TotalProportion(SubSeq(assets, 1, Len(assets) - 1)),
              assets[Len(assets)].proportion)

\* Mutant: an asset that takes the cumulative proportion above 1.0 is
\* dropped.
add_assets_validating ==
    \E a \in AssetArgs :
        /\ ~mc.on
        /\ Len(self.assets) < MaxAssets
        /\ self' = IF FLess(One, FAdd(TotalProportion(self.assets), a[2]))
                   THEN self
                   ELSE [self EXCEPT !.assets =
                            Append(@, Asset(a[1], a[2], a[3], a[4]))]
        /\ log' = Append(log, a)
        /\ call' = [name |-> "add_assets", args |-> a]
        /\ ret' = <<>>
        /\ UNCHANGED mc

add_assets ==
    \E a \in AssetArgs :
        /\ ~mc.on
        /\ Len(self.assets) < MaxAssets
        /\ self' = [self EXCEPT !.assets =
                        Append(@, Asset(a[1], a[2], a[3], a[4]))]
        /\ log' = Append(log, a)
        /\ call' = [name |-> "add_assets", args |-> a]
        /\ ret' = <<>>
        /\ UNCHANGED mc

Call_adjusted_return ==
    \E rate \in Rates :
        /\ ~mc.on
        /\ call' = [name |-> "adjusted_return", args |-> <<rate>>]
        /\ ret' = <<adjusted_return(self, rate)>>
        /\ UNCHANGED <<self, log, mc>>

Call_calculate_weighted_return ==
    /\ ~mc.on
    /\ call' = [name |-> "calculate_weighted_return", args |-> <<>>]
    /\ ret' = <<calculate_weighted_return(self)>>
    /\ UNCHANGED <<self, log, mc>>

Call_future_value_current_savings ==
    /\ ~mc.on
    /\ call' = [name |-> "future_value_current_savings", args |-> <<>>]
    /\ ret' = <<future_value_current_savings(self)>>
    /\ UNCHANGED <<self, log, mc>>

Call_future_value_annuity ==
    /\ ~mc.on
    /\ call' = [name |-> "future_value_annuity", args |-> <<>>]
    /\ ret' = <<future_value_annuity(self)>>
    /\ UNCHANGED <<self, log, mc>>

Call_calculate_principal ==
    /\ ~mc.on
    /\ call' = [name |-> "calculate_principal", args |-> <<>>]
    /\ ret' = <<calculate_principal(self)>>
    /\ UNCHANGED <<self, log, mc>>

Call_calculate_total_retirement_savings ==
    \E tax_rate \in TaxRates :
        /\ ~mc.on
        /\ call' = [name |-> "calculate_total_retirement_savings",
                    args |-> <<tax_rate>>]
        /\ ret' = calculate_total_retirement_savings(self, tax_rate)
        /\ UNCHANGED <<self, log, mc>>

\* monte_carlo_simulation is entered: total_savings_retirement = [].
MC_enter ==
    \E num_simulations \in NumSimulations :
        /\ ~mc.on
        /\ mc' = [on |-> TRUE, num_simulations |-> num_simulations,
                  samples |-> <<>>, total_savings_retirement |-> <<>>]
        /\ call' = [name |-> "monte_carlo_simulation",
                    args |-> <<num_simulations>>]
        /\ ret' = <<>>
        /\ UNCHANGED <<self, log>>

\* Mutant: the trial's total is kept in self.current_savings.
MC_trial_accumulating ==
    \E z \in [1..Len(self.assets) -> Deviates] :
        LET random_returns ==
                [j \in 1..Len(self.assets) |->
                    Normal(self.assets[j].expected_return,
                           self.assets[j].std_dev, z[j])]
        IN  /\ mc.on
            /\ Len(mc.total_savings_retirement) < mc.num_simulations
            /\ mc' = [mc EXCEPT
                        !.samples = Append(@, random_returns),
                        !.total_savings_retirement =
                            Append(@, TrialTotal(self, random_returns))]
            /\ self' = [self EXCEPT !.current_savings =
                            TrialTotal(self, random_returns)]
            /\ UNCHANGED <<call, ret, log>>

\* One pass of its loop: a return is sampled for each asset, independently,
\* and the trial's total is appended.
MC_trial ==
    \E z \in [1..Len(self.assets) -> Deviates] :
        LET random_returns ==
                [j \in 1..Len(self.assets) |->
                    Normal(self.assets[j].expected_return,
                           self.assets[j].std_dev, z[j])]
        IN  /\ mc.on
            /\ Len(mc.total_savings_retirement) < mc.num_simulations
            /\ mc' = [mc EXCEPT
                        !.samples = Append(@, random_returns),
                        !.total_savings_retirement =
                            Append(@, TrialTotal(self, random_returns))]
            /\ UNCHANGED <<self, call, ret, log>>

\* The loop is over: the list is returned.
MC_return ==
    /\ mc.on
    /\ Len(mc.total_savings_retirement) >= mc.num_simulations
    /\ call' = [name |-> "monte_carlo_simulation",
                args |-> <<mc.num_simulations, mc.samples>>]
    /\ ret' = mc.total_savings_retirement
    /\ mc' = Idle
    /\ UNCHANGED <<self, log>>

Next ==
    \/ add_assets
    \/ Call_adjusted_return
    \/ Call_calculate_weighted_return
    \/ Call_future_value_current_savings
    \/ Call_future_value_annuity
    \/ Call_calculate_principal
    \/ Call_calculate_total_retirement_savings
    \/ MC_enter
    \/ MC_trial
    \/ MC_return

Spec == Init /\ [][Next]_vars

\* -------------------------------------------------------------- claims
Returned(name) == ~mc.on /\ call.name = name

WithClass(p, cls) == [p EXCEPT !.cls = cls]

\* C1: when the plan's inflation-adjusted weighted return is exactly 0,
\* future_value_annuity() returns annual_savings * years_to_invest (no
\* division by zero, no NaN, no infinity).
C1_ZeroRateAnnuityIsPrincipal ==
    (Returned("future_value_annuity") /\ calculate_weighted_return(self) = Zero)
        => ret = <<FMul(self.annual_savings, F(self.years_to_invest))>>

\* C2: at tax_rate = 0 the Roth, Qualified and Non-Qualified totals of one
\* plan input are identical, each the untaxed sum
\* future_value_current_savings() + future_value_annuity().
C2_ZeroTaxTotalsAgree ==
    (Returned("calculate_total_retirement_savings") /\ call.args = <<Zero>>
        /\ self.cls # "RetirementPlan")
        => LET untaxed == FAdd(future_value_current_savings(self),
                               future_value_annuity(self))
           IN  /\ ret[3] = untaxed
               /\ \A c \in Classes \ {"RetirementPlan"} :
                    calculate_total_retirement_savings(WithClass(self, c),
                                                       Zero)[3] = ret[3]

\* The trial rate and total of one list of sampled returns.
TrialRate(p, random_returns) ==
    adjusted_return(p,
        Dot([j \in 1..Len(p.assets) |-> p.assets[j].proportion],
            random_returns))

LumpPlusAnnuityAt(p, r) ==
    FAdd(FMul(p.current_savings, FPow(FAdd(One, r), p.years_to_invest)),
         FMul(p.annual_savings,
              FDiv(FSub(FPow(FAdd(One, r), p.years_to_invest), One), r)))

SingleSureAsset(p) ==
    /\ Len(p.assets) = 1
    /\ p.assets[1].proportion = One
    /\ p.assets[1].std_dev = Zero

\* C3: for a plan whose portfolio is one asset of proportion 1.0 and
\* std_dev 0, monte_carlo_simulation(N), N >= 1, returns exactly N values,
\* each the deterministic future_value_current_savings() +
\* future_value_annuity() of the plan, untaxed.
C3_SureAssetTrialsAreDeterministic ==
    (Returned("monte_carlo_simulation") /\ SingleSureAsset(self)
        /\ call.args[1] >= 1)
        => /\ Len(ret) = call.args[1]
           /\ \A i \in 1..Len(ret) :
                ret[i] = FAdd(future_value_current_savings(self),
                              future_value_annuity(self))

C3_Witness ==
    /\ Returned("monte_carlo_simulation")
    /\ SingleSureAsset(self)
    /\ call.args[1] = 2
    /\ Len(ret) = 2
    /\ ret[1].k = "fin"
    /\ self.years_to_invest = 2

C5_NonQualifiedTotalFormula ==
    (Returned("calculate_total_retirement_savings")
        /\ self.cls = "NonQualifiedAnnuityPlan")
        => LET tax_rate == call.args[1]
               lump_sum == future_value_current_savings(self)
               annuity == future_value_annuity(self)
           IN  ret[3] = FMul(FAdd(FMul(lump_sum, FAdd(One, tax_rate)),
                                  annuity),
                             FSub(One, tax_rate))

C5_Witness ==
    /\ Returned("calculate_total_retirement_savings")
    /\ self.cls = "NonQualifiedAnnuityPlan"
    /\ call.args = <<Q(1, 4)>>
    /\ self.years_to_invest = 2
    /\ Len(self.assets) = 2
    /\ ret[3].k = "fin"

C7_TrialsAreUntaxed ==
    Returned("monte_carlo_simulation")
        => /\ Len(ret) = Len(call.args[2])
           /\ \A i \in 1..Len(ret) :
                ret[i] = LumpPlusAnnuityAt(self,
                            TrialRate(self, call.args[2][i]))
           /\ \A c \in Classes, i \in 1..Len(ret) :
                TrialTotal(WithClass(self, c), call.args[2][i]) = ret[i]

C7_Witness ==
    /\ Returned("monte_carlo_simulation")
    /\ self.cls = "QualifiedAnnuityPlan"
    /\ Len(ret) = 2
    /\ ret[1] # ret[2]
    /\ ret[1].k = "fin"
    /\ ret[2].k = "fin"

\* C8: years_to_invest is retirement_age - current_age, and it,
\* current_savings, annual_savings, inflation_rate, current_age and
\* retirement_age keep their construction-time values through every call.
C8_ParametersImmutable ==
    /\ [](self.years_to_invest = self.retirement_age - self.current_age)
    /\ [][/\ self'.years_to_invest = self.years_to_invest
          /\ self'.current_savings = self.current_savings
          /\ self'.annual_savings = self.annual_savings
          /\ self'.inflation_rate = self.inflation_rate
          /\ self'.current_age = self.current_age
          /\ self'.retirement_age = self.retirement_age]_vars

C8_Witness ==
    /\ Returned("monte_carlo_simulation")
    /\ Len(ret) = 2
    /\ Len(self.assets) = 2
    /\ self.years_to_invest = 2
    /\ self.retirement_age = 32

\* C9: with zero assets the weighted return (the empty proportion-weighted
\* sum of expected returns) is 0, and calculate_weighted_return completes
\* with a number, the inflation adjustment of 0.
C9_EmptyPortfolioReturn ==
    (Returned("calculate_weighted_return") /\ Len(self.assets) = 0)
        => /\ weighted_return(self) = Zero
           /\ ret = <<adjusted_return(self, Zero)>>
           /\ ret[1].k = "fin"

C9_Witness ==
    /\ Returned("calculate_weighted_return")
    /\ Len(self.assets) = 0
    /\ self.inflation_rate = Q(1, 4)

\* C10: the asset sequence is exactly the arguments of the add_assets calls
\* in call order: none rejected, dropped, reordered or rescaled, whatever
\* the cumulative proportion.
C10_AssetsAreTheCallsInOrder ==
    /\ Len(self.assets) = Len(log)
    /\ \A i \in 1..Len(log) :
         self.assets[i] = [name |-> log[i][1], proportion |-> log[i][2],
                           expected_return |-> log[i][3],
                           std_dev |-> log[i][4]]

C10_Witness ==
    /\ Len(log) = 2
    /\ log[1][1] = "stock"
    /\ log[2][1] = "fund"
    /\ FLess(One, TotalProportion(self.assets))
====
